---- MODULE Spec2Model ----
(***************************************************************************)
(* A model of pagediterator.PagedIterator (src/pagediterator.py): a        *)
(* read-only, indexable, iterable view over a collection delivered in      *)
(* pages, with a per-instance page cache (cached_pages) and a single       *)
(* iteration cursor (index).                                               *)
(*                                                                         *)
(* The page source is the subclass: it overrides total_size, page_size and *)
(* get_page.  The source modelled here is the one of the tests             *)
(* (PagedIterator1, src/test_pagediterator.py), generalised to any total   *)
(* size and page size within the bounds: the flat collection is 1, 2, ..., *)
(* total_size and page p holds the items p*page_size+1 ...  A get_page     *)
(* call may also fail (an exception of the source).  A subclass may leave  *)
(* page_size or get_page unimplemented, and then the base class's          *)
(* definitions raise RuntimeError; total_size left alone returns 0.        *)
(***************************************************************************)
EXTENDS Integers, Sequences, FiniteSets

\* ---------------------------------------------------------------- bounds
MaxTotal == 3
MaxPageSize == 2
MaxFailures == 1

VARIABLES
    cached_pages,   \* self.cached_pages: dict page number -> list of items
    index,          \* self.index: the iteration cursor
    total_size,     \* what the source's total_size property returns
    page_size,      \* what the source's page_size property returns
    overrides,      \* which of total_size, page_size, get_page the subclass
                    \* implements; the others are the base class's
    op,             \* the last operation: its name, argument, outcome and
                    \* the page numbers it passed to get_page
    fetchCalls,     \* per page number: how many times get_page was called
    fetchFails,     \* per page number: how many of these calls raised
    yielded,        \* the items the current pass has yielded so far
    passError,      \* an advancement of the current pass raised an error
    exhausted,      \* an advancement of the current pass raised StopIteration
    startCache,     \* the page numbers that were cached when the pass began
    prev,           \* the pass before the current one, as it was left
    handles         \* the callers' references to the iterator: what each one
                    \* got from next() in the current pass, and whether the
                    \* pass was begun while another was under way

vars ==
    <<cached_pages, index, total_size, page_size, overrides, op, fetchCalls,
      fetchFails, yielded, passError, exhausted, startCache, prev, handles>>

\* ------------------------------------------------------- values and results
Min(a, b) == IF a <= b THEN a ELSE b
Max(a, b) == IF a >= b THEN a ELSE b

\* Offsets a caller can pass.  An int carries its value; a bool is an int
\* in Python (True == 1); a str ('foo') carries nothing; a tuple carries its
\* number of elements.
IntOffsets == {[type |-> "int", val |-> n] : n \in -1 .. MaxTotal + 1}
BoolOffsets == {[type |-> "bool", val |-> 1]}
StrOffsets == {[type |-> "str", val |-> 0]}
TupleOffsets == {[type |-> "tuple", val |-> n] : n \in 1 .. 2}
Offsets == IntOffsets \cup BoolOffsets \cup StrOffsets \cup TupleOffsets
\* Keys of the writes that are refused: below, inside and past the bounds,
\* and no int at all.
Keys == {o \in Offsets : o.type = "str" \/ (o.type = "int" /\ o.val \in {-1, 0, MaxTotal})}
NoArg == [type |-> "noarg", val |-> 0]
IntOffset(n) == [type |-> "int", val |-> n]

\* isinstance(offset, int)
IsInstanceInt(o) == o.type \in {"int", "bool"}

\* Outcomes of an operation: a returned value or a raised exception.
Returned(v) == [kind |-> "return", val |-> v]
ReturnedBool(b) == [kind |-> "bool", val |-> IF b THEN 1 ELSE 0]
ReturnedSelf == [kind |-> "self", val |-> 0]
Raised(e) == [kind |-> e, val |-> 0]
ValueError == Raised("ValueError")
IndexError == Raised("IndexError")
TypeError == Raised("TypeError")
AssertionError == Raised("AssertionError")
StopIteration == Raised("StopIteration")
SourceFailure == Raised("SourceFailure")
PageSizeNotImplemented == Raised("RuntimeError: page_size() must be implemented.")
GetPageNotImplemented == Raised("RuntimeError: get_page() must be implemented.")
SetNotAllowed == Raised("RuntimeError: Setting values is not allowed.")
UnsetNotAllowed == Raised("RuntimeError: Unsetting values is not allowed.")

\* "<message>: %s" % offset.  With a tuple on the right of %, Python takes
\* its elements as the arguments of the format: one %s and a tuple of 0 or
\* 2 elements raise TypeError; everything else formats.
FormatRaises(o) == o.type = "tuple" /\ o.val # 1

\* ------------------------------------------------------------- the source
\* The flat collection of the tests: 1, 2, 3, ...
Item(i) == i + 1

\* get_page(p) of the source: page p of the flat collection, the last page
\* shorter when total_size is no multiple of page_size.
PageLen(p) == Max(0, Min(page_size, total_size - p * page_size))
SourcePage(p) == [k \in 1 .. PageLen(p) |-> Item(p * page_size + k - 1)]

PageNumbers == 0 .. MaxTotal + 1

TotalFails == LET RECURSIVE Sum(_)
                  Sum(n) == IF n < 0 THEN 0 ELSE fetchFails[n] + Sum(n - 1)
              IN  Sum(MaxTotal + 1)

\* dict[key] = value
DictSet(d, key, value) ==
    [k \in (DOMAIN d) \cup {key} |-> IF k = key THEN value ELSE d[k]]

\* counts[p] += 1 for the page numbers of a list of get_page calls
Counted(counts, pages) ==
    [p \in PageNumbers |->
        counts[p] + Cardinality({i \in 1 .. Len(pages) : pages[i] = p})]

\* ------------------------------------------------------ PagedIterator
\* The length kept once a pass has reached its end: the cursor's value then.
LengthKeptAtEnd == IF exhausted THEN index ELSE total_size

\* __len__: return self.total_size
Length == total_size

\* The upper bound taken inclusive: offset == len(self) passes.
ContainsIntInclusive(offset) == offset >= 0 /\ offset <= total_size

\* The lower bound forgotten: a negative offset passes.
ContainsIntNoLowerBound(offset) == offset < total_size

\* __contains__ on an int: offset >= 0 and offset < len(self)
ContainsInt(offset) == offset >= 0 /\ offset < Length

\* Page numbers counted from 1, as the remote API of the docstring's
\* example counts them.
PageOfOneBased(offset) == offset \div page_size + 1

\* page = (int) (offset / self.page_size).  Python 2 divides two ints to
\* the floor and Python 3 to a float that int() truncates toward zero; the
\* two agree on every offset >= 0, which is all the bounds check lets
\* through (and the float is exact far beyond the offsets modelled here).
PageOf(offset) ==
    IF offset >= 0
    THEN offset \div page_size
    ELSE -((-offset) \div page_size)

\* A cache lookup that never hits: every access fetches its page again.
IsCachedNever(page) == FALSE

\* page in self.cached_pages
IsCached(page) == page \in DOMAIN cached_pages

\* list[i] for i >= 0: the item, or IndexError past the end of the list
ListIndex(list, i) ==
    IF i < Len(list) THEN Returned(list[i + 1]) ELSE IndexError

\* The cache entry made before the fetch: a get_page call that raises
\* leaves an empty page in the cache.
GetItemCachesFailure(offset, fetchOk) ==
    LET out(res, cache, fetched, failed) ==
            [result |-> res, cache |-> cache, fetched |-> fetched,
             failed |-> failed]
    IN
    IF ~IsInstanceInt(offset)
    THEN out(IF FormatRaises(offset) THEN TypeError ELSE ValueError,
             cached_pages, <<>>, FALSE)
    ELSE IF ~ContainsInt(offset.val)
    THEN out(IndexError, cached_pages, <<>>, FALSE)
    ELSE IF "page_size" \notin overrides
    THEN out(PageSizeNotImplemented, cached_pages, <<>>, FALSE)
    ELSE
    LET page == PageOf(offset.val) IN
    IF IsCached(page)
    THEN out(ListIndex(cached_pages[page], offset.val % page_size),
             cached_pages, <<>>, FALSE)
    ELSE IF "get_page" \notin overrides
    THEN out(GetPageNotImplemented, cached_pages, <<page>>, TRUE)
    ELSE IF ~fetchOk
    THEN out(SourceFailure, DictSet(cached_pages, page, <<>>), <<page>>, TRUE)
    ELSE
    LET cache == DictSet(cached_pages, page, SourcePage(page)) IN
    out(ListIndex(cache[page], offset.val % page_size), cache, <<page>>, FALSE)

\* What __getitem__(offset) does to the cache and how it ends.  fetchOk says
\* whether a get_page call made by it returns (TRUE) or raises (FALSE).
\* result: the outcome; cache: cached_pages after it; fetched: the page
\* numbers passed to get_page; failed: whether that call raised.
GetItem(offset, fetchOk) ==
    LET out(res, cache, fetched, failed) ==
            [result |-> res, cache |-> cache, fetched |-> fetched,
             failed |-> failed]
    IN
    IF ~IsInstanceInt(offset)
    THEN out(IF FormatRaises(offset) THEN TypeError ELSE ValueError,
             cached_pages, <<>>, FALSE)
    ELSE IF ~ContainsInt(offset.val)
    THEN out(IndexError, cached_pages, <<>>, FALSE)
    ELSE IF "page_size" \notin overrides
    THEN out(PageSizeNotImplemented, cached_pages, <<>>, FALSE)
    ELSE
    LET page == PageOf(offset.val) IN
    IF IsCached(page)
    THEN out(ListIndex(cached_pages[page], offset.val % page_size),
             cached_pages, <<>>, FALSE)
    ELSE IF "get_page" \notin overrides
    THEN out(GetPageNotImplemented, cached_pages, <<page>>, TRUE)
    ELSE IF ~fetchOk
    THEN out(SourceFailure, cached_pages, <<page>>, TRUE)
    ELSE
    LET cache == DictSet(cached_pages, page, SourcePage(page)) IN
    out(ListIndex(cache[page], offset.val % page_size), cache, <<page>>, FALSE)

NoPrev == [exhausted |-> FALSE, error |-> FALSE, yielded |-> <<>>]

\* Two callers hold the object that iter(iterator) returns, which is the
\* iterator itself (return self).
Handles == {1, 2}
NoYields == [h \in Handles |-> <<>>]

\* PagedIterator.__init__, under a subclass that overrides some of
\* total_size, page_size and get_page.
Init ==
    /\ cached_pages = <<>>
    /\ index = 0
    /\ overrides \in SUBSET {"total_size", "page_size", "get_page"}
    /\ total_size \in (IF "total_size" \in overrides THEN 0 .. MaxTotal ELSE {0})
    /\ page_size \in (IF "page_size" \in overrides THEN 1 .. MaxPageSize ELSE {0})
    /\ op = [name |-> "__init__", arg |-> NoArg, result |-> ReturnedSelf,
             fetched |-> <<>>]
    /\ fetchCalls = [p \in PageNumbers |-> 0]
    /\ fetchFails = [p \in PageNumbers |-> 0]
    /\ yielded = <<>>
    /\ passError = FALSE
    /\ exhausted = FALSE
    /\ startCache = {}
    /\ prev = NoPrev
    /\ handles = [by |-> NoYields, second |-> FALSE]

\* A read that moves the cursor: the iteration goes on after the item read.
GetItemMovesCursor(offset) ==
    \E fetchOk \in BOOLEAN :
        LET r == GetItem(offset, fetchOk) IN
        /\ r.failed => TotalFails < MaxFailures
        /\ cached_pages' = r.cache
        /\ index' = IF r.result.kind = "return" THEN offset.val + 1 ELSE index
        /\ op' = [name |-> "__getitem__", arg |-> offset, result |-> r.result,
                  fetched |-> r.fetched]
        /\ fetchCalls' = Counted(fetchCalls, r.fetched)
        /\ fetchFails' = IF r.failed THEN Counted(fetchFails, r.fetched) ELSE fetchFails
        /\ UNCHANGED <<total_size, page_size, overrides, yielded,
                       passError, exhausted, startCache, prev>>

\* iterator[offset]
__getitem__(offset) ==
    \E fetchOk \in BOOLEAN :
        LET r == GetItem(offset, fetchOk) IN
        /\ r.failed => TotalFails < MaxFailures
        /\ cached_pages' = r.cache
        /\ op' = [name |-> "__getitem__", arg |-> offset, result |-> r.result,
                  fetched |-> r.fetched]
        /\ fetchCalls' = Counted(fetchCalls, r.fetched)
        /\ fetchFails' = IF r.failed THEN Counted(fetchFails, r.fetched) ELSE fetchFails
        /\ UNCHANGED <<index, total_size, page_size, overrides, yielded,
                       passError, exhausted, startCache, prev>>

\* offset in iterator.  The assert stops a non-int; where asserts are
\* compiled out (python -O) the comparison with 0 raises TypeError on
\* Python 3 and orders the types on Python 2, which gives False.
__contains__(offset) ==
    /\ \E res \in (IF IsInstanceInt(offset)
                   THEN {ReturnedBool(ContainsInt(offset.val))}
                   ELSE {AssertionError, TypeError, ReturnedBool(FALSE)}) :
            op' = [name |-> "__contains__", arg |-> offset, result |-> res,
                   fetched |-> <<>>]
    /\ UNCHANGED <<cached_pages, index, total_size, page_size, overrides,
                   fetchCalls, fetchFails, yielded, passError, exhausted,
                   startCache, prev>>

\* len(iterator)
__len__ ==
    /\ op' = [name |-> "__len__", arg |-> NoArg, result |-> Returned(Length),
              fetched |-> <<>>]
    /\ UNCHANGED <<cached_pages, index, total_size, page_size, overrides,
                   fetchCalls, fetchFails, yielded, passError, exhausted,
                   startCache, prev>>

\* A write that is carried out: the value replaces page 0 of the cache.
SetItemStores(key, value) ==
    /\ op' = [name |-> "__setitem__", arg |-> key, result |-> Returned(value),
              fetched |-> <<>>]
    /\ cached_pages' = DictSet(cached_pages, 0, <<value>>)
    /\ UNCHANGED <<index, total_size, page_size, overrides, fetchCalls,
                   fetchFails, yielded, passError, exhausted, startCache, prev>>

\* iterator[key] = value
__setitem__(key, value) ==
    /\ op' = [name |-> "__setitem__", arg |-> key, result |-> SetNotAllowed,
              fetched |-> <<>>]
    /\ UNCHANGED <<cached_pages, index, total_size, page_size, overrides,
                   fetchCalls, fetchFails, yielded, passError, exhausted,
                   startCache, prev>>

\* del iterator[key]
__delitem__(key) ==
    /\ op' = [name |-> "__delitem__", arg |-> key, result |-> UnsetNotAllowed,
              fetched |-> <<>>]
    /\ UNCHANGED <<cached_pages, index, total_size, page_size, overrides,
                   fetchCalls, fetchFails, yielded, passError, exhausted,
                   startCache, prev>>

\* A pass begun while another is under way joins it: the cursor stays.
IterKeepsCursor ==
    /\ index' = IF index > 0 /\ ~exhausted THEN index ELSE 0
    /\ op' = [name |-> "__iter__", arg |-> NoArg, result |-> ReturnedSelf,
              fetched |-> <<>>]
    /\ yielded' = <<>>
    /\ passError' = FALSE
    /\ exhausted' = FALSE
    /\ startCache' = DOMAIN cached_pages
    /\ prev' = IF exhausted
               THEN [exhausted |-> TRUE, error |-> passError, yielded |-> yielded]
               ELSE NoPrev
    /\ UNCHANGED <<cached_pages, total_size, page_size, overrides, fetchCalls,
                   fetchFails>>

\* A new pass that also empties the cache.
IterClearsCache ==
    /\ index' = 0
    /\ cached_pages' = <<>>
    /\ op' = [name |-> "__iter__", arg |-> NoArg, result |-> ReturnedSelf,
              fetched |-> <<>>]
    /\ yielded' = <<>>
    /\ passError' = FALSE
    /\ exhausted' = FALSE
    /\ startCache' = DOMAIN cached_pages
    /\ prev' = IF exhausted
               THEN [exhausted |-> TRUE, error |-> passError, yielded |-> yielded]
               ELSE NoPrev
    /\ UNCHANGED <<total_size, page_size, overrides, fetchCalls,
                   fetchFails>>

\* iter(iterator): a new pass begins
__iter__ ==
    /\ index' = 0
    /\ op' = [name |-> "__iter__", arg |-> NoArg, result |-> ReturnedSelf,
              fetched |-> <<>>]
    /\ yielded' = <<>>
    /\ passError' = FALSE
    /\ exhausted' = FALSE
    /\ startCache' = DOMAIN cached_pages
    /\ prev' = IF exhausted
               THEN [exhausted |-> TRUE, error |-> passError, yielded |-> yielded]
               ELSE NoPrev
    /\ UNCHANGED <<cached_pages, total_size, page_size, overrides, fetchCalls,
                   fetchFails>>

\* The offset read without the decrement: the item after the cursor's.
NextOffsetNoDecrement(i) == i

\* self[self.index - 1], read after self.index += 1
NextOffset(i) == i - 1

\* The end test taken strict: the cursor may pass total_size by one.
AtEndStrict(i) == i > total_size

\* if self.index >= self.total_size: raise StopIteration
AtEnd(i) == i >= total_size

\* The increment forgotten: the cursor stays where it is.
IncrementedNot(i) == i

\* self.index += 1
Incremented(i) == i + 1

\* The item read before the increment: a read that raises leaves the
\* cursor where it was.
NextIncrementsAfterRead ==
    IF AtEnd(index)
    THEN /\ op' = [name |-> "next", arg |-> NoArg, result |-> StopIteration,
                   fetched |-> <<>>]
         /\ exhausted' = TRUE
         /\ UNCHANGED <<cached_pages, index, total_size, page_size, overrides,
                        fetchCalls, fetchFails, yielded, passError, startCache,
                        prev>>
    ELSE \E fetchOk \in BOOLEAN :
            LET r == GetItem(IntOffset(index), fetchOk) IN
            /\ r.failed => TotalFails < MaxFailures
            /\ index' = IF r.result.kind = "return" THEN Incremented(index) ELSE index
            /\ cached_pages' = r.cache
            /\ op' = [name |-> "next", arg |-> NoArg, result |-> r.result,
                      fetched |-> r.fetched]
            /\ fetchCalls' = Counted(fetchCalls, r.fetched)
            /\ fetchFails' = IF r.failed THEN Counted(fetchFails, r.fetched) ELSE fetchFails
            /\ yielded' = IF r.result.kind = "return"
                          THEN Append(yielded, r.result.val)
                          ELSE yielded
            /\ passError' = (passError \/ r.result.kind # "return")
            /\ UNCHANGED <<total_size, page_size, overrides, exhausted,
                           startCache, prev>>

\* iterator.next(): the index is incremented before the item is read.
next ==
    IF AtEnd(index)
    THEN /\ op' = [name |-> "next", arg |-> NoArg, result |-> StopIteration,
                   fetched |-> <<>>]
         /\ exhausted' = TRUE
         /\ UNCHANGED <<cached_pages, index, total_size, page_size, overrides,
                        fetchCalls, fetchFails, yielded, passError, startCache,
                        prev>>
    ELSE \E fetchOk \in BOOLEAN :
            LET r == GetItem(IntOffset(NextOffset(Incremented(index))), fetchOk) IN
            /\ r.failed => TotalFails < MaxFailures
            /\ index' = Incremented(index)
            /\ cached_pages' = r.cache
            /\ op' = [name |-> "next", arg |-> NoArg, result |-> r.result,
                      fetched |-> r.fetched]
            /\ fetchCalls' = Counted(fetchCalls, r.fetched)
            /\ fetchFails' = IF r.failed THEN Counted(fetchFails, r.fetched) ELSE fetchFails
            /\ yielded' = IF r.result.kind = "return"
                          THEN Append(yielded, r.result.val)
                          ELSE yielded
            /\ passError' = (passError \/ r.result.kind # "return")
            /\ UNCHANGED <<total_size, page_size, overrides, exhausted,
                           startCache, prev>>

\* Python 3's name for next()
__next__ == next

Values == {0}

\* The operations of one caller.
Next ==
    \/ (\E offset \in Offsets : __getitem__(offset)) /\ UNCHANGED handles
    \/ (\E offset \in Offsets : __contains__(offset)) /\ UNCHANGED handles
    \/ __len__ /\ UNCHANGED handles
    \/ (\E key \in Keys, value \in Values : __setitem__(key, value)) /\ UNCHANGED handles
    \/ (\E key \in Keys : __delitem__(key)) /\ UNCHANGED handles
    \/ __iter__ /\ UNCHANGED handles
    \/ next /\ UNCHANGED handles
    \/ __next__ /\ UNCHANGED handles

Spec == Init /\ [][Next]_vars

\* The source comes to report another total size as a side effect of a
\* get_page call, as a source does that learns the size from the answers to
\* its requests (the docstring's GithubSearcher and the tests'
\* PagedIterator1 set the total size in get_page / fetch_page).  The new
\* value is what the operations after the one that fetched read.  Pages
\* cached before stay as they were fetched.
SourceTotalChanges ==
    /\ "total_size" \in overrides
    /\ op.fetched # <<>>
    /\ total_size' \in (0 .. MaxTotal) \ {total_size}
    /\ UNCHANGED <<cached_pages, index, page_size, overrides, op, fetchCalls,
                   fetchFails, yielded, passError, exhausted, startCache, prev>>

\* A fully implemented source whose total size changes over time.
InitDyn == Init /\ overrides = {"total_size", "page_size", "get_page"}

\* The operations that read the total size, on int offsets, over one pass,
\* and the source's change of it.
NextDyn ==
    \/ (\E offset \in IntOffsets : __getitem__(offset)) /\ UNCHANGED handles
    \/ (\E offset \in IntOffsets : __contains__(offset)) /\ UNCHANGED handles
    \/ __len__ /\ UNCHANGED handles
    \/ next /\ UNCHANGED handles
    \/ SourceTotalChanges /\ UNCHANGED handles

SpecDyn == InitDyn /\ [][NextDyn]_vars

\* iter(iterator), by either caller: it returns the iterator itself, so the
\* caller's handle is a reference to the one object and its one index.  The
\* pass it begins is a second one if a pass had advanced and not ended.
StartPass ==
    /\ __iter__
    /\ handles' = [by |-> NoYields, second |-> (index > 0 /\ ~exhausted)]

\* next(handle) by caller h: next() of the one object; what it returns goes
\* to caller h.
Advance(h) ==
    /\ next
    /\ handles' = [handles EXCEPT
                      !.by[h] = IF op'.result.kind = "return"
                                THEN Append(@, op'.result.val)
                                ELSE @]

\* Two callers of one iterator over a fully implemented source.
InitHandles == Init /\ overrides = {"total_size", "page_size", "get_page"}

NextHandles ==
    \/ StartPass
    \/ \E h \in Handles : Advance(h)

SpecHandles == InitHandles /\ [][NextHandles]_vars

\* One pass over a fully implemented source of constant total size: the
\* caller goes on calling next() (a for loop does, until StopIteration),
\* never calls iter() again, and may read items and the length in between.
InitLive == Init /\ overrides = {"total_size", "page_size", "get_page"}

NextLive ==
    \/ next /\ UNCHANGED handles
    \/ (\E offset \in IntOffsets : __getitem__(offset)) /\ UNCHANGED handles
    \/ __len__ /\ UNCHANGED handles

SpecLive ==
    InitLive /\ [][NextLive]_vars /\ WF_vars(next /\ UNCHANGED handles)

\* ------------------------------------------------------------- the claims
\* The subclass implements page_size and get_page.
SourceImplemented == {"page_size", "get_page"} \subseteq overrides

\* The last operation was an access to a valid int offset.
ValidGet ==
    /\ op.name = "__getitem__"
    /\ IsInstanceInt(op.arg)
    /\ 0 <= op.arg.val
    /\ op.arg.val < total_size

\* C1: for every int i with 0 <= i < total_size, in every reachable state,
\* iterator[i] returns item i of the flat collection, which is the item at
\* position i mod page_size of page floor(i / page_size); the only other
\* way it ends is the failure of the fetch it made for that page.
C1_GetReturnsFlatItem ==
    (ValidGet /\ SourceImplemented) =>
        /\ op.result \in {Returned(Item(op.arg.val)), SourceFailure}
        /\ op.result.kind = "return" =>
              op.result.val =
                  SourcePage(op.arg.val \div page_size)[(op.arg.val % page_size) + 1]
        /\ op.result = SourceFailure => op.fetched = <<op.arg.val \div page_size>>

\* A repeated read in the middle of a pass: item 2 comes from the cache.
C1_Witness ==
    /\ ValidGet
    /\ op.arg = IntOffset(2)
    /\ total_size = 3
    /\ page_size = 2
    /\ op.result = Returned(3)
    /\ op.fetched = <<>>
    /\ index = 1

\* C2: once get_page(p) has returned, no later operation calls get_page(p):
\* the number of calls for p stays what it was.
C2_NoFetchAfterSuccess ==
    [][\A p \in PageNumbers :
          fetchCalls[p] > fetchFails[p] => fetchCalls'[p] = fetchCalls[p]]_vars

\* Offset 0 read again from the cache after page 1 was fetched in between.
C2_Witness ==
    /\ ValidGet
    /\ op.arg = IntOffset(0)
    /\ op.result = Returned(1)
    /\ op.fetched = <<>>
    /\ fetchCalls[0] = 1
    /\ fetchCalls[1] = 1
    /\ DOMAIN cached_pages = {0, 1}

\* C3, as claimed: get_page is called at most once for every page number,
\* failed calls included.
C3_AtMostOneCallPerPage == \A p \in PageNumbers : fetchCalls[p] <= 1

\* C3, amended: get_page(p) returns at most once; every other call for p
\* is one that raised.
C3_AtMostOneSuccessPerPage ==
    \A p \in PageNumbers :
        /\ fetchCalls[p] <= fetchFails[p] + 1
        /\ fetchCalls[p] > fetchFails[p] <=> p \in DOMAIN cached_pages

\* A page fetched twice by the iteration: the first call raised.
C3_Witness ==
    /\ op.name = "next"
    /\ op.result.kind = "return"
    /\ \E p \in PageNumbers :
          /\ fetchCalls[p] = 2
          /\ fetchFails[p] = 1
          /\ op.fetched = <<p>>

\* C4: iterator[offset] for an int offset < 0 or >= total_size raises
\* IndexError, calls get_page for no page and leaves cached_pages and index
\* as they were.
C4_OutOfBoundsGet ==
    [][(/\ op'.name = "__getitem__"
        /\ IsInstanceInt(op'.arg)
        /\ (op'.arg.val < 0 \/ op'.arg.val >= total_size))
       => /\ op'.result = IndexError
          /\ op'.fetched = <<>>
          /\ fetchCalls' = fetchCalls
          /\ cached_pages' = cached_pages
          /\ index' = index]_vars

\* offset == total_size refused in the middle of a pass, with a page cached.
C4_Witness ==
    /\ op.name = "__getitem__"
    /\ op.arg = IntOffset(total_size)
    /\ total_size = 3
    /\ op.result = IndexError
    /\ DOMAIN cached_pages # {}
    /\ index = 2

\* C5, as claimed: iterator[offset] for an offset that is no int raises
\* ValueError, whatever total_size is, calls get_page for no page and leaves
\* cached_pages and index as they were.
C5_NonIntGetIsValueError ==
    [][(op'.name = "__getitem__" /\ ~IsInstanceInt(op'.arg))
       => /\ op'.result = ValueError
          /\ op'.fetched = <<>>
          /\ fetchCalls' = fetchCalls
          /\ cached_pages' = cached_pages
          /\ index' = index]_vars

\* C6: for every int i, (i in iterator) is TRUE iff 0 <= i < len(iterator);
\* it calls get_page for no page and leaves cached_pages and index as they
\* were.
C6_ContainsIsBoundsTest ==
    [][(op'.name = "__contains__" /\ IsInstanceInt(op'.arg))
       => /\ op'.result = ReturnedBool(0 <= op'.arg.val /\ op'.arg.val < total_size)
          /\ op'.fetched = <<>>
          /\ fetchCalls' = fetchCalls
          /\ cached_pages' = cached_pages
          /\ index' = index]_vars

\* Offset 2 found valid in the middle of a pass while its page (page 1) is
\* not cached.
C6_Witness ==
    /\ op.name = "__contains__"
    /\ op.arg = IntOffset(2)
    /\ op.result = ReturnedBool(TRUE)
    /\ total_size = 3
    /\ page_size = 2
    /\ DOMAIN cached_pages = {0}
    /\ index = 1

\* C7: a pass in which no advancement raised an error has yielded the items
\* at the offsets 0 .. index-1 in that order, and when it has been advanced
\* to its end these are the offsets 0 .. total_size-1, whatever was cached
\* when the pass began.
C7_FullPassYieldsAll ==
    ~passError =>
        /\ yielded = [k \in 1 .. index |-> Item(k - 1)]
        /\ index <= total_size
        /\ exhausted => yielded = [k \in 1 .. total_size |-> Item(k - 1)]

\* A pass over 1, 2, 3 advanced to its end, begun with page 1 alone cached.
C7_Witness ==
    /\ exhausted
    /\ ~passError
    /\ op.name = "next"
    /\ total_size = 3
    /\ page_size = 2
    /\ startCache = {1}
    /\ yielded = <<1, 2, 3>>

C9_FailedFetchNotCached ==
    [][/\ (op'.name = "__getitem__" /\ fetchFails' # fetchFails) =>
             /\ op'.result \in {SourceFailure, GetPageNotImplemented}
             /\ cached_pages' = cached_pages
             /\ Len(op'.fetched) = 1
             /\ op'.fetched[1] \notin DOMAIN cached_pages'
             /\ fetchFails'[op'.fetched[1]] = fetchFails[op'.fetched[1]] + 1
       /\ (op'.name = "__getitem__"
             /\ op'.result \in {SourceFailure, GetPageNotImplemented}) =>
             fetchFails' # fetchFails
       /\ \A p \in PageNumbers :
             (/\ fetchFails[p] > 0
              /\ fetchCalls[p] = fetchFails[p]
              /\ \/ /\ op'.name = "__getitem__"
                    /\ IsInstanceInt(op'.arg)
                    /\ 0 <= op'.arg.val
                    /\ op'.arg.val < total_size
                    /\ op'.arg.val \div page_size = p
                 \/ /\ op'.name = "next"
                    /\ index < total_size
                    /\ index \div page_size = p)
             => (op'.fetched = <<p>> /\ fetchCalls'[p] = fetchCalls[p] + 1)]_vars

\* The fetch of page 1 raised under iterator[2]; page 0 alone is cached.
C9_Witness ==
    /\ op.name = "__getitem__"
    /\ op.arg = IntOffset(2)
    /\ op.result = SourceFailure
    /\ op.fetched = <<1>>
    /\ fetchFails[1] = 1
    /\ page_size = 2
    /\ DOMAIN cached_pages = {0}

\* C10: iterator[key] = value and del iterator[key] raise RuntimeError for
\* every key, call get_page for no page and leave cached_pages and index as
\* they were.
C10_WritesRefused ==
    [][(op'.name \in {"__setitem__", "__delitem__"})
       => /\ op'.result =
                (IF op'.name = "__setitem__" THEN SetNotAllowed ELSE UnsetNotAllowed)
          /\ op'.fetched = <<>>
          /\ fetchCalls' = fetchCalls
          /\ cached_pages' = cached_pages
          /\ index' = index]_vars

\* A write to the valid key 0 refused while page 0 is cached and a pass is
\* under way.
C10_Witness ==
    /\ op.name = "__setitem__"
    /\ op.arg = IntOffset(0)
    /\ op.result = SetNotAllowed
    /\ 0 \in DOMAIN cached_pages
    /\ index = 1

\* C11: under a source whose total_size is 0 and that implements neither
\* page_size nor get_page, after any operations: len() is 0, every
\* iterator[offset] with an int offset raises IndexError, every advancement
\* raises StopIteration and nothing is yielded, page_size and get_page are
\* never reached (no RuntimeError of theirs is raised, no call is counted)
\* and the cache stays empty.
C11_EmptyBaseSource ==
    (total_size = 0 /\ "page_size" \notin overrides /\ "get_page" \notin overrides)
    => /\ cached_pages = <<>>
       /\ \A p \in PageNumbers : fetchCalls[p] = 0
       /\ op.result \notin {PageSizeNotImplemented, GetPageNotImplemented}
       /\ yielded = <<>>
       /\ index = 0
       /\ op.name = "__len__" => op.result = Returned(0)
       /\ (op.name = "__getitem__" /\ IsInstanceInt(op.arg)) => op.result = IndexError
       /\ op.name = "next" => (op.result = StopIteration /\ exhausted)

\* The base class alone (nothing overridden): a pass that ended at its
\* first advancement.
C11_Witness ==
    /\ overrides = {}
    /\ total_size = 0
    /\ op.name = "next"
    /\ op.result = StopIteration
    /\ exhausted
    /\ yielded = <<>>

\* C13: next() with index >= total_size raises StopIteration, calls
\* get_page for no page and leaves index, cached_pages and what was yielded
\* as they were; next() with index = c < total_size leaves index = c + 1,
\* and what it returns is item c (the value of iterator[c]).
C13_AdvanceSteps ==
    [][op'.name = "next" =>
          IF index >= total_size
          THEN /\ op'.result = StopIteration
               /\ op'.fetched = <<>>
               /\ fetchCalls' = fetchCalls
               /\ cached_pages' = cached_pages
               /\ index' = index
               /\ yielded' = yielded
          ELSE /\ index' = index + 1
               /\ op'.result # StopIteration
               /\ op'.result.kind = "return" =>
                     (op'.result.val = Item(index) /\ yielded' = Append(yielded, Item(index)))
               /\ op'.result.kind # "return" => yielded' = yielded
               /\ SourceImplemented =>
                     op'.result \in {Returned(Item(index)), SourceFailure}]_vars

\* The end signalled after two items.
C13_Witness ==
    /\ op.name = "next"
    /\ op.result = StopIteration
    /\ exhausted
    /\ total_size = 2
    /\ index = 2
    /\ yielded = <<1, 2>>

\* C14: in every step, every entry of cached_pages stays, with the value it
\* had; a step adds at most one entry, and only an iterator[offset] or a
\* next() that returned after one get_page call adds one.
C14_CacheOnlyGrows ==
    [][/\ \A p \in DOMAIN cached_pages :
             p \in DOMAIN cached_pages' /\ cached_pages'[p] = cached_pages[p]
       /\ Cardinality(DOMAIN cached_pages') <= Cardinality(DOMAIN cached_pages) + 1
       /\ cached_pages' # cached_pages =>
             /\ op'.name \in {"__getitem__", "next"}
             /\ op'.result.kind = "return"
             /\ Len(op'.fetched) = 1]_vars

\* Three pages cached, one of them after a fetch that raised, and a new
\* pass begun.
C14_Witness ==
    /\ DOMAIN cached_pages = {0, 1, 2}
    /\ page_size = 1
    /\ fetchFails[1] = 1
    /\ op.name = "__iter__"

\* The offsets the current pass went over without yielding their items.
Skipped ==
    {c \in 0 .. index - 1 : \A k \in 1 .. Len(yielded) : yielded[k] # Item(c)}

\* C17: when the get_page call of a next() made at index = c raises, the
\* error reaches the caller with index = c + 1, cached_pages as it was and
\* nothing yielded; offset c then stays unyielded for the rest of the pass,
\* and an advancement that returns always returns the item at the index it
\* found.
C17_FailedAdvanceSkips ==
    [][/\ (op'.name = "next" /\ fetchFails' # fetchFails) =>
             /\ op'.result \in {SourceFailure, GetPageNotImplemented}
             /\ index' = index + 1
             /\ cached_pages' = cached_pages
             /\ yielded' = yielded
             /\ index \in Skipped'
       /\ op'.name # "__iter__" => Skipped \subseteq Skipped'
       /\ (op'.name = "next" /\ op'.result.kind = "return") =>
             op'.result.val = Item(index)]_vars

\* A pass over 1, 2, 3 whose first advancement failed: it ended with 2, 3.
C17_Witness ==
    /\ exhausted
    /\ passError
    /\ total_size = 3
    /\ page_size = 2
    /\ fetchFails[0] = 1
    /\ yielded = <<2, 3>>
    /\ Skipped = {0}

\* C18: iterator[offset] leaves index (and what the pass has yielded) as
\* it was, however it ends; an advancement right after it returns the item
\* at the index the pass had reached.
C18_GetKeepsCursor ==
    [][/\ op'.name = "__getitem__" =>
             (index' = index /\ yielded' = yielded /\ exhausted' = exhausted)
       /\ (op.name = "__getitem__" /\ op'.name = "next" /\ op'.result.kind = "return") =>
             op'.result.val = Item(index)]_vars

\* A read whose fetch raised, in the middle of a pass.
C18_Witness ==
    /\ op.name = "__getitem__"
    /\ op.result = SourceFailure
    /\ index = 1
    /\ yielded = <<1>>

\* C19: 0 <= index <= total_size in every reachable state (total_size is
\* constant in this specification).
C19_CursorInRange == 0 <= index /\ index <= total_size

\* The cursor at total_size after an advancement whose fetch raised.
C19_Witness ==
    /\ op.name = "next"
    /\ op.result = SourceFailure
    /\ total_size = 3
    /\ index = 3

\* C20: every page number passed to get_page or present in cached_pages is
\* between 0 and floor((total_size - 1) / page_size); cached_pages is empty
\* after construction and never has more than ceil(total_size / page_size)
\* entries.
C20_PageNumbersInRange ==
    /\ op.name = "__init__" => cached_pages = <<>>
    /\ DOMAIN cached_pages \subseteq PageNumbers
    /\ \A p \in PageNumbers :
          (fetchCalls[p] > 0 \/ p \in DOMAIN cached_pages) =>
              (page_size > 0 /\ 0 <= p /\ p <= (total_size - 1) \div page_size)
    /\ IF page_size > 0
       THEN Cardinality(DOMAIN cached_pages) <=
                (total_size + page_size - 1) \div page_size
       ELSE cached_pages = <<>>

\* Both pages of 1, 2, 3 cached, the last one at its second fetch.
C20_Witness ==
    /\ total_size = 3
    /\ page_size = 2
    /\ DOMAIN cached_pages = {0, 1}
    /\ fetchCalls[1] = 2

\* C12: whatever total_size was before, every operation (a step in which
\* the source's total size does not change) uses the value the source
\* reports when the operation is made: len() returns it, (i in
\* iterator) and the bounds check of iterator[i] compare with it, and next()
\* stops exactly when index has reached it.
C12_TotalSizeReadEachTime ==
    [][total_size' = total_size =>
       /\ op'.name = "__len__" => op'.result = Returned(total_size)
       /\ (op'.name = "__contains__" /\ IsInstanceInt(op'.arg)) =>
             op'.result = ReturnedBool(0 <= op'.arg.val /\ op'.arg.val < total_size)
       /\ (op'.name = "__getitem__" /\ IsInstanceInt(op'.arg)) =>
             IF 0 <= op'.arg.val /\ op'.arg.val < total_size
             THEN \/ op'.arg.val \div page_size \in DOMAIN cached_pages
                  \/ op'.fetched = <<op'.arg.val \div page_size>>
             ELSE op'.result = IndexError /\ op'.fetched = <<>>
       /\ op'.name = "next" =>
             IF index >= total_size
             THEN op'.result = StopIteration /\ index' = index
             ELSE op'.result # StopIteration /\ index' = index + 1]_vars

\* len() is 3 although the pass ended at index 1, when the source held one
\* item, and page 0 was cached with that one item.
C12_Witness ==
    /\ op.name = "__len__"
    /\ op.result = Returned(3)
    /\ exhausted
    /\ index = 1
    /\ page_size = 2
    /\ 0 \in DOMAIN cached_pages
    /\ cached_pages[0] = <<1>>

\* The items of s.
Range(s) == {s[i] : i \in DOMAIN s}

\* The items at offsets 0 .. n-1, in order.
ItemsBelow(n) == [k \in 1 .. n |-> k]

\* s is in ascending order.
Ascending(s) == \A i, j \in DOMAIN s : i < j => s[i] < s[j]

\* The handles' yields of the current pass are a split of the offsets
\* 0 .. index-1: each one went to exactly one handle, in order.
SplitOfPass ==
    /\ Range(handles.by[1]) \cap Range(handles.by[2]) = {}
    /\ Range(handles.by[1]) \cup Range(handles.by[2]) = Range(ItemsBelow(index))
    /\ Len(handles.by[1]) + Len(handles.by[2]) = index
    /\ \A h \in Handles : Ascending(handles.by[h])

\* The steps of C15: a start sets the one cursor to 0, and an advancement
\* through either handle returns the item at the cursor to that handle alone
\* and increments the cursor.
SharedCursorSteps ==
    /\ op'.name = "__iter__" => index' = 0 /\ handles'.by = NoYields
    /\ (op'.name = "next" /\ op'.result.kind = "return") =>
          /\ op'.result.val = index + 1
          /\ index' = index + 1
          /\ \E h \in Handles :
                /\ handles'.by[h] = Append(handles.by[h], index + 1)
                /\ \A g \in Handles \ {h} : handles'.by[g] = handles.by[g]

\* C15 as stated: one cursor for every handle; a second start while a pass is
\* in progress sets it to 0, an advancement through either handle returns
\* the item at the cursor and increments it; after the second start, with
\* successful fetches, the two handles together yield each offset exactly
\* once, and neither handle yields a full pass.
C15_NeitherHandleFullPass ==
    [][/\ SharedCursorSteps
       /\ (handles'.second /\ ~passError') => SplitOfPass'
       /\ (handles'.second /\ ~passError' /\ exhausted') =>
             /\ index' = total_size
             /\ \A h \in Handles : handles'.by[h] # ItemsBelow(total_size)]_vars

\* C15, amended: as above, but a handle does yield the full pass 0 ..
\* total_size-1 when the other handle is not advanced to an item after the
\* second start; a handle yields less than the full pass exactly when the
\* other one has yielded an item.
C15_HandlesSplitOnePass ==
    [][/\ SharedCursorSteps
       /\ (handles'.second /\ ~passError') => SplitOfPass'
       /\ (handles'.second /\ ~passError' /\ exhausted') =>
             /\ index' = total_size
             /\ \A h \in Handles :
                   handles'.by[h] # ItemsBelow(total_size) <=>
                       \E g \in Handles \ {h} : handles'.by[g] # <<>>]_vars

\* After the second start, caller 1 got 1 and 3 and caller 2 got 2.
C15_Witness ==
    /\ handles.second
    /\ exhausted
    /\ ~passError
    /\ total_size = 3
    /\ handles.by[1] = <<1, 3>>
    /\ handles.by[2] = <<2>>

\* C16: a pass that is advanced again and again and not restarted comes to
\* raise StopIteration; if no get_page call failed, every advancement before
\* that returned an item, and there were exactly total_size of them.
C16_IterationFinite ==
    <>(/\ op.name = "next"
       /\ op.result = StopIteration
       /\ exhausted
       /\ (\A p \in PageNumbers : fetchFails[p] = 0) =>
             /\ ~passError
             /\ Len(yielded) = total_size
             /\ index = total_size)

\* The pass over three items ended after three yields.
C16_Witness ==
    /\ op.name = "next"
    /\ op.result = StopIteration
    /\ exhausted
    /\ ~passError
    /\ total_size = 3
    /\ yielded = <<1, 2, 3>>

====
